---- MODULE Spec2Model ----
(***************************************************************************)
(* Model of backend/data/minimal_drug_fetcher.py: the paged openFDA        *)
(* fetcher (MinimalOpenFDAClient), the filter/extraction policy            *)
(* (MinimalDrugProcessor) and the driver build_minimal_database.           *)
(*                                                                         *)
(* Python values are tagged records.  A dict is a function whose domain is *)
(* the set of keys it holds; a list is a sequence of values.               *)
(***************************************************************************)
EXTENDS Integers, Sequences, FiniteSets, TLC

(***************************************************************************)
(* Python values                                                           *)
(***************************************************************************)
Str(x) == [t |-> "str", s |-> x, n |-> 0]
Num(k) == [t |-> "num", s |-> "", n |-> k]
None == [t |-> "null", s |-> "", n |-> 0]
\* a nested mapping met as a field value; s is its str(), "{}" when empty
Map(repr) == [t |-> "map", s |-> repr, n |-> 0]
List(elems) == [t |-> "list", l |-> elems]
EmptyDict == << >>

\* bool(v)
Truthy(v) ==
    CASE v.t = "str" -> v.s # ""
      [] v.t = "num" -> v.n # 0
      [] v.t = "null" -> FALSE
      [] v.t = "map" -> v.s # "{}"
      [] v.t = "list" -> v.l # << >>

\* str(v)
PyStr(v) ==
    CASE v.t = "str" -> v.s
      [] v.t = "num" -> ToString(v.n)
      [] v.t = "null" -> "None"
      [] v.t = "map" -> v.s

\* v == "literal"
EqStr(v, lit) == v.t = "str" /\ v.s = lit

\* data.get(key)
DictGet(data, key) == IF key \in DOMAIN data THEN data[key] ELSE None

\* sep.join(parts), parts a sequence of strings
RECURSIVE JoinStr(_, _)
JoinStr(sep, parts) ==
    IF parts = << >> THEN ""
    ELSE IF Len(parts) = 1 THEN parts[1]
    ELSE parts[1] \o sep \o JoinStr(sep, Tail(parts))

\* [str(v) for v in value if v]
RECURSIVE StrOfTruthy(_)
StrOfTruthy(value) ==
    IF value = << >> THEN << >>
    ELSE IF Truthy(Head(value))
         THEN <<PyStr(Head(value))>> \o StrOfTruthy(Tail(value))
         ELSE StrOfTruthy(Tail(value))

(***************************************************************************)
(* MinimalDrugProcessor                                                    *)
(***************************************************************************)
\* safe_get(data, key, default): the first item of a list is returned as it
\* is, str() is applied to a non-list value only
safe_get(data, key, default) ==
    LET value == DictGet(data, key)
    IN  IF value.t = "null" THEN Str(default)
        ELSE IF value.t = "list"
             THEN (IF value.l # << >> THEN value.l[1] ELSE Str(default))
             ELSE Str(PyStr(value))

\* safe_join(data, key)
safe_join(data, key) ==
    LET value == IF key \in DOMAIN data THEN data[key] ELSE List(<< >>)
    IN  IF value.t = "list" THEN Str(JoinStr(", ", StrOfTruthy(value.l)))
        ELSE Str("")

\* a faulty variant of common_types: a product type of a non-human product let in
common_types_wide == {"HUMAN OTC DRUG", "HUMAN PRESCRIPTION DRUG", "VETERINARY"}

common_types == {"HUMAN OTC DRUG", "HUMAN PRESCRIPTION DRUG"}

\* a faulty variant of GetOpenfda: a record without "openfda" read as its own
\* identification mapping
GetOpenfda_flat(raw_drug) ==
    IF "openfda" \in DOMAIN raw_drug THEN raw_drug["openfda"] ELSE raw_drug

\* raw_drug.get("openfda", {})
GetOpenfda(raw_drug) ==
    IF "openfda" \in DOMAIN raw_drug THEN raw_drug["openfda"] ELSE EmptyDict

\* a faulty variant of LacksNdc: one missing code is enough to reject
LacksNdc_either(product_ndc, package_ndc) ==
    ~Truthy(product_ndc) \/ ~Truthy(package_ndc)

\* not product_ndc and not package_ndc
LacksNdc(product_ndc, package_ndc) ==
    ~Truthy(product_ndc) /\ ~Truthy(package_ndc)

\* process_drug(raw_drug) together with the return statement it leaves by:
\* filter = 1..7 for the rejecting filter, 0 for the final return
process_drug_at(raw_drug) ==
    LET openfda == GetOpenfda(raw_drug)
        brand_name == safe_get(openfda, "brand_name", "Unknown")
        generic_name == safe_get(openfda, "generic_name", "")
        manufacturer == safe_get(openfda, "manufacturer_name", "")
        product_type == safe_get(openfda, "product_type", "")
        product_ndc == safe_join(openfda, "product_ndc")
        package_ndc == safe_join(openfda, "package_ndc")
        substance == safe_join(openfda, "substance_name")
        active_ingredients ==
            IF ~Truthy(substance)
            THEN safe_get(raw_drug, "active_ingredient", "")
            ELSE substance
        route == safe_join(openfda, "route")
        purpose == safe_get(raw_drug, "purpose", "")
        indications == safe_get(raw_drug, "indications_and_usage", "")
        rejected(i) == [filter |-> i, value |-> None]
    IN  IF EqStr(brand_name, "Unknown") \/ ~Truthy(brand_name) THEN rejected(1)
        ELSE IF DOMAIN openfda = {} \/ Cardinality(DOMAIN openfda) = 0
             THEN rejected(2)
        ELSE IF ~Truthy(product_type) THEN rejected(3)
        ELSE IF ~(product_type.t = "str" /\ product_type.s \in common_types)
             THEN rejected(4)
        ELSE IF LacksNdc(product_ndc, package_ndc) THEN rejected(5)
        ELSE IF ~Truthy(active_ingredients) THEN rejected(6)
        ELSE IF ~Truthy(purpose) /\ ~Truthy(indications) THEN rejected(7)
        ELSE [filter |-> 0,
              value |->
                [brand_name |-> brand_name,
                 generic_name |-> generic_name,
                 manufacturer |-> manufacturer,
                 product_type |-> product_type,
                 product_ndc |-> product_ndc,
                 package_ndc |-> package_ndc,
                 active_ingredients |-> active_ingredients,
                 route |-> route,
                 purpose |-> purpose,
                 indications |-> indications,
                 dosage |-> safe_get(raw_drug, "dosage_and_administration", ""),
                 warnings |-> safe_get(raw_drug, "warnings", ""),
                 do_not_use |-> safe_get(raw_drug, "do_not_use", ""),
                 stop_use |-> safe_get(raw_drug, "stop_use", ""),
                 ask_doctor |-> safe_get(raw_drug, "ask_doctor", ""),
                 when_using |-> safe_get(raw_drug, "when_using", ""),
                 side_effects |-> safe_get(raw_drug, "adverse_reactions", ""),
                 storage |-> safe_get(raw_drug, "storage_and_handling", ""),
                 keep_away_children |->
                     safe_get(raw_drug, "keep_out_of_reach_of_children", "")]]

\* process_drug(raw_drug): None or the normalized record
process_drug(raw_drug) == process_drug_at(raw_drug).value

Limit == 2000

\* a faulty variant of TooLong: the limit itself already counts as too long
TooLong_inclusive(text) == Len(text) >= Limit

\* len(text) > 2000
TooLong(text) == Len(text) > Limit

\* filter(None, parts)
RECURSIVE NonEmptyParts(_)
NonEmptyParts(parts) ==
    IF parts = << >> THEN << >>
    ELSE IF Head(parts) # ""
         THEN <<Head(parts)>> \o NonEmptyParts(Tail(parts))
         ELSE NonEmptyParts(Tail(parts))

\* create_search_text(drug)
create_search_text(drug) ==
    LET line(label, key) ==
            IF Truthy(drug[key]) THEN label \o PyStr(drug[key]) ELSE ""
        parts == << "Brand: " \o PyStr(drug["brand_name"]),
                    line("Generic: ", "generic_name"),
                    line("Ingredients: ", "active_ingredients"),
                    line("Purpose: ", "purpose"),
                    line("Uses: ", "indications") >>
        text == JoinStr("\n", NonEmptyParts(parts))
    IN  IF TooLong(text) THEN SubSeq(text, 1, Limit) \o "..." ELSE text

\* drug["search_text"] = create_search_text(drug)
WithSearchText(drug) ==
    ("search_text" :> Str(create_search_text(drug))) @@ drug

(***************************************************************************)
(* MinimalOpenFDAClient                                                    *)
(***************************************************************************)
\* limit: int = 100, the step of skip, and the sleep in milliseconds
DefaultLimit == 100
SkipStep == 100
SleepMs == 500

\* a faulty variant of Skip: pages counted from one
Skip_fromOne(page) == (page + 1) * SkipStep

\* skip = page * 100
Skip(page) == page * SkipStep

\* what one GET can come to: the transport fails, the 30 s timeout passes,
\* the body is not JSON, or the body parses to an object
FailureKinds == {"transport_error", "timeout", "bad_json"}

\* a faulty variant of fetch_drug_labels_page: no except clause
fetch_drug_labels_page_noexcept(outcome) ==
    IF outcome.kind \in FailureKinds
    THEN [raised |-> TRUE, data |-> EmptyDict]
    ELSE [raised |-> FALSE, data |-> outcome.body]

\* fetch_drug_labels_page: the parsed body, or {"results": []} from the
\* except clause
fetch_drug_labels_page(outcome) ==
    IF outcome.kind \in FailureKinds
    THEN [raised |-> FALSE, data |-> [results |-> List(<< >>)]]
    ELSE [raised |-> FALSE, data |-> outcome.body]

\* a faulty variant of Extend: the newest page put in front
Extend_front(all, results) == results \o all

\* all_drugs.extend(data["results"])
Extend(all, results) == all \o results

\* a faulty variant of OnException: close() called on the normal path only
OnException_noFinally == "raised"

\* try: ... finally: an exception inside the try block runs the finally block
OnException == "finally"

(***************************************************************************)
(* Inputs                                                                  *)
(***************************************************************************)
MaxPages == 3

Absent == [t |-> "absent"]
Opt(key, v) == IF v.t = "absent" THEN EmptyDict ELSE key :> v
One(x) == List(<<Str(x)>>)

RECURSIVE Rep(_, _)
Rep(c, k) ==
    IF k <= 0 THEN ""
    ELSE IF k % 2 = 0 THEN LET h == Rep(c, k \div 2) IN h \o h
    ELSE c \o Rep(c, k - 1)

\* label sections around the length limit of the search text
LongText(k) == One(Rep("p", Limit - k))

BrandChoices ==
    {Absent, One("Advil"), One("Unknown"), Str("Tylenol"), List(<<None>>)}
TypeChoices ==
    {Absent, One("HUMAN OTC DRUG"), One("HUMAN PRESCRIPTION DRUG"),
     One("VETERINARY")}
NdcChoices ==
    { <<Absent, Absent>>,
      <<One("0573-0150"), Absent>>,
      <<Str("0573-0150"), Absent>>,
      <<Str("0573-0150"),
        List(<<Str(""), Str("0573-0150-20"), Str("0573-0150-40")>>)>> }
IngredientChoices ==
    { <<Absent, Absent>>,
      <<List(<<Str("IBUPROFEN"), Str(""), Str("CAFFEINE")>>), Absent>>,
      <<List(<<Str("")>>), One("Ibuprofen 200 mg")>> }
PurposeChoices ==
    {Absent, One("Pain reliever"), List(<<Num(5)>>), LongText(52), LongText(51)}
IndicationChoices == {Absent, One("For the temporary relief of minor aches")}
GenericChoices == {Absent, One("ibuprofen"), List(<<None>>)}
ExtraChoices == {"none", "plain", "mixed"}

\* the identification keys that no filter reads
OpenfdaExtras(ex) ==
    CASE ex = "none" -> EmptyDict
      [] ex = "plain" ->
            [manufacturer_name |-> One("Pfizer"),
             route |-> List(<<Str("ORAL"), Str("TOPICAL")>>)]
      [] ex = "mixed" ->
            [manufacturer_name |-> Str("Pfizer"), route |-> Str("ORAL")]

\* the label sections that no filter reads
LabelExtras(ex) ==
    CASE ex = "none" -> EmptyDict
      [] ex = "plain" ->
            [dosage_and_administration |-> One("Take 1 tablet every 4 hours"),
             warnings |-> One("Stomach bleeding warning"),
             do_not_use |-> One("If allergic to ibuprofen"),
             stop_use |-> One("If pain gets worse"),
             ask_doctor |-> One("If you have ulcers"),
             when_using |-> One("Take with food"),
             adverse_reactions |-> One("Nausea"),
             storage_and_handling |-> One("Store at 20-25 C"),
             keep_out_of_reach_of_children |-> One("Keep out of reach")]
      [] ex = "mixed" ->
            [dosage_and_administration |-> Str("Take 1 tablet"),
             warnings |-> List(<<Map("{'text': 'Stomach bleeding'}")>>),
             do_not_use |-> None,
             stop_use |-> List(<< >>),
             ask_doctor |-> Num(3),
             when_using |-> Map("{'text': 'Take with food'}"),
             adverse_reactions |-> List(<<Num(5), Str("Nausea")>>),
             storage_and_handling |-> List(<<None>>)]

Label(ingr, pu, ind, ex) ==
    Opt("active_ingredient", ingr[2]) @@ Opt("purpose", pu)
        @@ Opt("indications_and_usage", ind) @@ LabelExtras(ex)

Identification(b, pt, ndc, ingr, g, ex) ==
    Opt("brand_name", b) @@ Opt("product_type", pt)
        @@ Opt("product_ndc", ndc[1]) @@ Opt("package_ndc", ndc[2])
        @@ Opt("substance_name", ingr[1]) @@ Opt("generic_name", g)
        @@ OpenfdaExtras(ex)

\* records with an identification sub-mapping
RecordsWithOpenfda ==
    { ("openfda" :> Identification(b, pt, ndc, ingr, g, ex))
          @@ Label(ingr, pu, ind, ex) :
        b \in BrandChoices, pt \in TypeChoices, ndc \in NdcChoices,
        ingr \in IngredientChoices, pu \in PurposeChoices,
        ind \in IndicationChoices, g \in GenericChoices, ex \in ExtraChoices }

\* records without one; flat: the identification keys sit on the record itself
RecordsWithoutOpenfda ==
    { (IF flat
       THEN [brand_name |-> One("Advil"), product_type |-> One("HUMAN OTC DRUG"),
             product_ndc |-> One("0573-0150")]
       ELSE EmptyDict) @@ Label(ingr, pu, ind, ex) :
        flat \in BOOLEAN, ingr \in IngredientChoices, pu \in PurposeChoices,
        ind \in IndicationChoices, ex \in ExtraChoices }

RawInputs ==
    RecordsWithOpenfda \cup RecordsWithoutOpenfda
        \cup { ("openfda" :> EmptyDict) @@ r : r \in RecordsWithoutOpenfda }

\* the records the remote pages of the driver runs are made of: two that
\* pass the filters (one with a numeric purpose) and a veterinary one
RecA ==
    ("openfda" :> Identification(One("Advil"), One("HUMAN OTC DRUG"),
                                 <<One("0573-0150"), Absent>>,
                                 <<One("IBUPROFEN"), Absent>>,
                                 One("ibuprofen"), "plain"))
        @@ Label(<<Absent, Absent>>, One("Pain reliever"), Absent, "plain")
RecN ==
    ("openfda" :> Identification(One("Zyrtec"), One("HUMAN PRESCRIPTION DRUG"),
                                 <<One("50580-726"), Absent>>,
                                 <<One("CETIRIZINE"), Absent>>,
                                 Absent, "none"))
        @@ Label(<<Absent, Absent>>, List(<<Num(5)>>), Absent, "none")
RecV ==
    ("openfda" :> Identification(One("Rimadyl"), One("VETERINARY"),
                                 <<One("54771-8501"), Absent>>,
                                 <<One("CARPROFEN"), Absent>>,
                                 Absent, "none"))
        @@ Label(<<Absent, Absent>>, One("For dogs"), Absent, "none")
RawPool == {RecA, RecN, RecV}

\* the result lists a page can carry (a real page holds up to 100 records)
PageBodies ==
    { << >>, <<RecN>>, <<RecV, RecA>>, <<RecA, RecV>>, <<RecN, RecA>>,
      <<RecA, RecN, RecV>> }

\* what the remote service can answer to one request
Outcomes ==
    { [kind |-> k, body |-> EmptyDict] : k \in FailureKinds }
        \cup { [kind |-> "ok", body |-> [error |-> Map("{'code': 'NOT_FOUND'}")]] }
        \cup { [kind |-> "ok", body |-> [results |-> List(q)]] : q \in PageBodies }

(***************************************************************************)
(* State                                                                   *)
(***************************************************************************)
VARIABLES
    pc,          \* position in build_minimal_database
    num_pages,   \* its argument
    session,     \* client.session: "none", "open", "closed"
    closes,      \* calls of session.aclose()
    page,        \* loop variable of fetch_all_labels
    all_drugs,   \* fetch_all_labels' accumulator
    requests,    \* the GETs sent so far, their params
    inflight,    \* GETs sent and not yet answered
    responses,   \* what the remote answered, per request
    sleeps,      \* completed asyncio.sleep calls, in ms
    raw_drugs, idx, processed, skipped,   \* the processing loop
    made_dir, csv_file, json_file,        \* the output directory and files
    exc,         \* the exception travelling to the caller, "none" if none
    ppc, raw_drug, drug, rejected_by      \* one call of process_drug

vars == <<pc, num_pages, session, closes, page, all_drugs, requests, inflight,
          responses, sleeps, raw_drugs, idx, processed, skipped, made_dir,
          csv_file, json_file, exc, ppc, raw_drug, drug, rejected_by>>

driverVars == <<pc, num_pages, session, closes, page, all_drugs, requests,
                inflight, responses, sleeps, raw_drugs, idx, processed,
                skipped, made_dir, csv_file, json_file, exc>>
procVars == <<ppc, raw_drug, drug, rejected_by>>

NotWritten == [written |-> FALSE, rows |-> << >>]

DriverIdle ==
    /\ pc = "start" /\ session = "none" /\ closes = 0 /\ page = 0
    /\ all_drugs = << >> /\ requests = << >> /\ inflight = 0
    /\ responses = << >> /\ sleeps = << >>
    /\ raw_drugs = << >> /\ idx = 0 /\ processed = << >> /\ skipped = 0
    /\ made_dir = FALSE /\ csv_file = NotWritten /\ json_file = NotWritten
    /\ exc = "none"

ProcIdle ==
    ppc = "idle" /\ raw_drug = EmptyDict /\ drug = None /\ rejected_by = 0

(***************************************************************************)
(* build_minimal_database(num_pages)                                       *)
(***************************************************************************)
Init == DriverIdle /\ ProcIdle /\ num_pages \in 0..MaxPages

\* client = MinimalOpenFDAClient(); fetch_all_labels starts with all_drugs = []
CreateClient ==
    /\ pc = "start"
    /\ session' = "open"
    /\ page' = 0
    /\ all_drugs' = << >>
    /\ pc' = "loop"
    /\ UNCHANGED <<num_pages, closes, requests, inflight, responses, sleeps,
                   raw_drugs, idx, processed, skipped, made_dir, csv_file,
                   json_file, exc>>
    /\ UNCHANGED procVars

\* for page in range(num_pages): await self.session.get(endpoint, params)
SendRequest ==
    /\ pc = "loop" /\ page < num_pages
    /\ requests' = Append(requests, [skip |-> Skip(page), limit |-> DefaultLimit])
    /\ inflight' = inflight + 1
    /\ pc' = "await_response"
    /\ UNCHANGED <<num_pages, session, closes, page, all_drugs, responses,
                   sleeps, raw_drugs, idx, processed, skipped, made_dir,
                   csv_file, json_file, exc>>
    /\ UNCHANGED procVars

\* the request ends; fetch_drug_labels_page returns and the page is added
ReceiveResponse ==
    /\ pc = "await_response"
    /\ \E outcome \in Outcomes :
         LET r == fetch_drug_labels_page(outcome)
         IN  /\ responses' = Append(responses, outcome)
             /\ inflight' = inflight - 1
             /\ IF r.raised
                THEN /\ exc' = "fetch"
                     /\ pc' = OnException
                     /\ all_drugs' = all_drugs
                ELSE /\ exc' = exc
                     /\ pc' = "sleep"
                     /\ all_drugs' =
                            IF "results" \in DOMAIN r.data
                            THEN Extend(all_drugs, r.data["results"].l)
                            ELSE all_drugs
    /\ UNCHANGED <<num_pages, session, closes, page, requests, sleeps,
                   raw_drugs, idx, processed, skipped, made_dir, csv_file,
                   json_file>>
    /\ UNCHANGED procVars

\* await asyncio.sleep(0.5), then the next iteration
Sleep ==
    /\ pc = "sleep"
    /\ sleeps' = Append(sleeps, SleepMs)
    /\ page' = page + 1
    /\ pc' = "loop"
    /\ UNCHANGED <<num_pages, session, closes, all_drugs, requests, inflight,
                   responses, raw_drugs, idx, processed, skipped, made_dir,
                   csv_file, json_file, exc>>
    /\ UNCHANGED procVars

\* return all_drugs; processed = []; skipped = 0
FetchReturn ==
    /\ pc = "loop" /\ page >= num_pages
    /\ raw_drugs' = all_drugs
    /\ idx' = 0
    /\ processed' = << >>
    /\ skipped' = 0
    /\ pc' = "process"
    /\ UNCHANGED <<num_pages, session, closes, page, all_drugs, requests,
                   inflight, responses, sleeps, made_dir, csv_file, json_file,
                   exc>>
    /\ UNCHANGED procVars

\* a faulty variant of ProcessRecord: a rejected record is not counted
ProcessRecord_uncounted ==
    /\ pc = "process" /\ idx < Len(raw_drugs)
    /\ LET d == process_drug(raw_drugs[idx + 1])
       IN  /\ processed' = IF d # None THEN Append(processed, WithSearchText(d))
                           ELSE processed
           /\ skipped' = skipped
    /\ idx' = idx + 1
    /\ UNCHANGED <<pc, num_pages, session, closes, page, all_drugs, requests,
                   inflight, responses, sleeps, raw_drugs, made_dir, csv_file,
                   json_file, exc>>
    /\ UNCHANGED procVars

\* one iteration of: for raw_drug in raw_drugs
ProcessRecord ==
    /\ pc = "process" /\ idx < Len(raw_drugs)
    /\ LET d == process_drug(raw_drugs[idx + 1])
       IN  IF d # None
           THEN /\ processed' = Append(processed, WithSearchText(d))
                /\ skipped' = skipped
           ELSE /\ processed' = processed
                /\ skipped' = skipped + 1
    /\ idx' = idx + 1
    /\ UNCHANGED <<pc, num_pages, session, closes, page, all_drugs, requests,
                   inflight, responses, sleeps, raw_drugs, made_dir, csv_file,
                   json_file, exc>>
    /\ UNCHANGED procVars

\* os.makedirs("../data/processed", exist_ok=True), which may raise OSError
Makedirs ==
    /\ pc = "process" /\ idx >= Len(raw_drugs)
    /\ \E ok \in BOOLEAN :
         IF ok THEN made_dir' = TRUE /\ exc' = exc /\ pc' = "to_csv"
         ELSE made_dir' = made_dir /\ exc' = "OSError" /\ pc' = OnException
    /\ UNCHANGED <<num_pages, session, closes, page, all_drugs, requests,
                   inflight, responses, sleeps, raw_drugs, idx, processed,
                   skipped, csv_file, json_file>>
    /\ UNCHANGED procVars

\* df = pd.DataFrame(processed); df.to_csv(...), which may raise OSError
ToCsv ==
    /\ pc = "to_csv"
    /\ \E ok \in BOOLEAN :
         IF ok
         THEN /\ csv_file' = [written |-> TRUE, rows |-> processed]
              /\ exc' = exc /\ pc' = "to_json"
         ELSE csv_file' = csv_file /\ exc' = "OSError" /\ pc' = OnException
    /\ UNCHANGED <<num_pages, session, closes, page, all_drugs, requests,
                   inflight, responses, sleeps, raw_drugs, idx, processed,
                   skipped, made_dir, json_file>>
    /\ UNCHANGED procVars

\* df.to_json(...), which may raise OSError
ToJson ==
    /\ pc = "to_json"
    /\ \E ok \in BOOLEAN :
         IF ok
         THEN /\ json_file' = [written |-> TRUE, rows |-> processed]
              /\ exc' = exc /\ pc' = "summary"
         ELSE json_file' = json_file /\ exc' = "OSError" /\ pc' = OnException
    /\ UNCHANGED <<num_pages, session, closes, page, all_drugs, requests,
                   inflight, responses, sleeps, raw_drugs, idx, processed,
                   skipped, made_dir, csv_file>>
    /\ UNCHANGED procVars

\* row['purpose'][:50] if row['purpose'] else 'N/A', over df.head(10): a
\* purpose that is truthy and no string cannot be sliced
SummaryRaises ==
    \E i \in 1..Len(processed) :
        /\ i <= 10
        /\ Truthy(processed[i]["purpose"])
        /\ processed[i]["purpose"].t # "str"

\* the summary is printed; return df
Summary ==
    /\ pc = "summary"
    /\ IF SummaryRaises THEN exc' = "TypeError" /\ pc' = OnException
       ELSE exc' = exc /\ pc' = "finally"
    /\ UNCHANGED <<num_pages, session, closes, page, all_drugs, requests,
                   inflight, responses, sleeps, raw_drugs, idx, processed,
                   skipped, made_dir, csv_file, json_file>>
    /\ UNCHANGED procVars

\* finally: await client.close(); then the return or the pending exception
Finally ==
    /\ pc = "finally"
    /\ session' = "closed"
    /\ closes' = closes + 1
    /\ pc' = IF exc = "none" THEN "returned" ELSE "raised"
    /\ UNCHANGED <<num_pages, page, all_drugs, requests, inflight, responses,
                   sleeps, raw_drugs, idx, processed, skipped, made_dir,
                   csv_file, json_file, exc>>
    /\ UNCHANGED procVars

Next ==
    \/ CreateClient \/ SendRequest \/ ReceiveResponse \/ Sleep \/ FetchReturn
    \/ ProcessRecord \/ Makedirs \/ ToCsv \/ ToJson \/ Summary \/ Finally

Spec == Init /\ [][Next]_vars

(***************************************************************************)
(* process_drug and create_search_text on one record                       *)
(***************************************************************************)
InitProc ==
    /\ DriverIdle /\ num_pages = 0
    /\ ppc = "call" /\ raw_drug \in RawInputs /\ drug = None /\ rejected_by = 0

\* drug = MinimalDrugProcessor.process_drug(raw_drug)
CallProcess ==
    /\ ppc = "call"
    /\ LET r == process_drug_at(raw_drug)
       IN  drug' = r.value /\ rejected_by' = r.filter
    /\ ppc' = "returned"
    /\ UNCHANGED raw_drug
    /\ UNCHANGED driverVars

\* if drug: drug["search_text"] = create_search_text(drug)
AttachSearchText ==
    /\ ppc = "returned" /\ drug # None
    /\ drug' = WithSearchText(drug)
    /\ ppc' = "accepted"
    /\ UNCHANGED <<raw_drug, rejected_by>>
    /\ UNCHANGED driverVars

\* else: skipped += 1
SkipRecord ==
    /\ ppc = "returned" /\ drug = None
    /\ ppc' = "skipped"
    /\ UNCHANGED <<raw_drug, drug, rejected_by>>
    /\ UNCHANGED driverVars

NextProc == CallProcess \/ AttachSearchText \/ SkipRecord

SpecProc == InitProc /\ [][NextProc]_vars

(***************************************************************************)
(* Properties of process_drug and create_search_text (under SpecProc)      *)
(***************************************************************************)
\* the identification sub-mapping of a record, empty when there is none
IdOf(r) == IF "openfda" \in DOMAIN r THEN r["openfda"] ELSE EmptyDict

HumanTypes == {"HUMAN OTC DRUG", "HUMAN PRESCRIPTION DRUG"}

\* the seven filters, each stated on the raw record
Pass1(r) ==
    LET b == safe_get(IdOf(r), "brand_name", "")
    IN  Truthy(b) /\ ~EqStr(b, "Unknown")
Pass2(r) == "openfda" \in DOMAIN r /\ DOMAIN r["openfda"] # {}
Pass3(r) == Truthy(safe_get(IdOf(r), "product_type", ""))
Pass4(r) ==
    LET p == safe_get(IdOf(r), "product_type", "")
    IN  p.t = "str" /\ p.s \in HumanTypes
Pass5(r) ==
    \/ Truthy(safe_join(IdOf(r), "product_ndc"))
    \/ Truthy(safe_join(IdOf(r), "package_ndc"))
Pass6(r) ==
    LET joined == safe_join(IdOf(r), "substance_name")
    IN  Truthy(IF Truthy(joined) THEN joined
               ELSE safe_get(r, "active_ingredient", ""))
Pass7(r) ==
    \/ Truthy(safe_get(r, "purpose", ""))
    \/ Truthy(safe_get(r, "indications_and_usage", ""))

\* the first filter, in the order 1..7, that the record fails; 0 if none
FirstFailing(r) ==
    IF ~Pass1(r) THEN 1 ELSE IF ~Pass2(r) THEN 2 ELSE IF ~Pass3(r) THEN 3
    ELSE IF ~Pass4(r) THEN 4 ELSE IF ~Pass5(r) THEN 5
    ELSE IF ~Pass6(r) THEN 6 ELSE IF ~Pass7(r) THEN 7 ELSE 0

\* C1: process_drug returns a normalized record exactly when the record
\* passes all seven filters and None otherwise, and a rejected record is
\* rejected by the first filter, in the order 1..7, that it fails.
C1_FilterChain ==
    ppc \in {"returned", "accepted", "skipped"} =>
        /\ (drug # None) <=> (FirstFailing(raw_drug) = 0)
        /\ rejected_by = FirstFailing(raw_drug)

\* a record accepted on its package_ndc alone, its product_ndc being a
\* non-list value that joins to the empty string
C1_Witness ==
    /\ ppc = "accepted"
    /\ "product_ndc" \in DOMAIN raw_drug["openfda"]
    /\ drug["product_ndc"] = Str("")
    /\ drug["package_ndc"] = Str("0573-0150-20, 0573-0150-40")

\* C6: every field of a record returned by process_drug is a plain string.
C6_AllFieldsStrings ==
    (ppc \in {"returned", "accepted"} /\ drug # None) =>
        \A k \in DOMAIN drug : drug[k].t = "str"

\* the product type a raw record carries: the first item of a list, else
\* the value itself
RawProductType(r) ==
    LET v == DictGet(IdOf(r), "product_type")
    IN  IF v.t = "list" THEN (IF v.l # << >> THEN v.l[1] ELSE None) ELSE v

\* C7: a record whose product type is outside the two human drug types is
\* rejected whatever else it holds, and a returned record has one of them.
C7_HumanTypesOnly ==
    ppc \in {"returned", "accepted", "skipped"} =>
        /\ ~(RawProductType(raw_drug).t = "str"
               /\ PyStr(RawProductType(raw_drug)) \in HumanTypes)
             => drug = None
        /\ drug # None => drug["product_type"] \in {Str(x) : x \in HumanTypes}

\* a veterinary record that passes every other filter, rejected
C7_Witness ==
    /\ ppc = "skipped" /\ drug = None
    /\ RawProductType(raw_drug) = Str("VETERINARY")
    /\ Pass1(raw_drug) /\ Pass2(raw_drug) /\ Pass3(raw_drug)
    /\ Pass5(raw_drug) /\ Pass6(raw_drug) /\ Pass7(raw_drug)

\* C8: a record without the openfda sub-mapping, or with an empty one, is
\* rejected (process_drug returns None), whatever its other fields hold.
C8_NoOpenfdaRejected ==
    (/\ ppc \in {"returned", "accepted", "skipped"}
     /\ ("openfda" \notin DOMAIN raw_drug \/ DOMAIN raw_drug["openfda"] = {}))
        => drug = None /\ rejected_by = 1 /\ ppc # "accepted"

\* a record without openfda that holds identification keys of its own and
\* the label sections the later filters ask for, rejected
C8_Witness ==
    /\ ppc = "skipped" /\ drug = None
    /\ "openfda" \notin DOMAIN raw_drug
    /\ "brand_name" \in DOMAIN raw_drug /\ "product_ndc" \in DOMAIN raw_drug
    /\ Pass6(raw_drug) /\ Pass7(raw_drug)

\* the non-empty lines of a record's search text, joined by newlines
NaiveSearchText(d) ==
    LET opt(label, key) ==
            IF Truthy(d[key]) THEN <<label \o PyStr(d[key])>> ELSE << >>
    IN  JoinStr("\n", <<"Brand: " \o PyStr(d["brand_name"])>>
                          \o opt("Generic: ", "generic_name")
                          \o opt("Ingredients: ", "active_ingredients")
                          \o opt("Purpose: ", "purpose")
                          \o opt("Uses: ", "indications"))

\* C9: search_text is at most 2003 characters; a concatenation of at most
\* 2000 characters is emitted unchanged, a longer one as its first 2000
\* characters followed by "...".
C9_SearchTextCap ==
    ppc = "accepted" =>
        LET text == drug["search_text"]
            naive == NaiveSearchText(drug)
        IN  /\ text.t = "str"
            /\ Len(text.s) <= 2003
            /\ Len(naive) <= 2000 => text.s = naive
            /\ Len(naive) > 2000 => text.s = SubSeq(naive, 1, 2000) \o "..."

\* a record whose concatenation is 2001 characters long, cut to 2003
C9_Witness ==
    /\ ppc = "accepted"
    /\ Len(NaiveSearchText(drug)) = 2001
    /\ Len(drug["search_text"].s) = 2003

(***************************************************************************)
(* Properties of the fetcher and the driver (under Spec)                   *)
(***************************************************************************)
Fetching == pc \in {"start", "loop", "await_response", "sleep"}
AfterLoop == pc \in {"to_csv", "to_json", "summary", "finally", "returned", "raised"}
Ended == pc \in {"returned", "raised"}

\* C2: accepted records plus skipped records make the records processed so
\* far, at every point of the loop, and all the fetcher returned once the
\* loop is over.
C2_CountsAddUp ==
    /\ Len(processed) + skipped = idx
    /\ idx <= Len(raw_drugs)
    /\ AfterLoop => (Len(processed) + skipped = Len(all_drugs)
                       /\ raw_drugs = all_drugs)

\* the loop is over with records on both sides
C2_Witness ==
    pc = "to_csv" /\ skipped >= 1 /\ Len(processed) >= 2 /\ Len(raw_drugs) >= 4

\* the records a page's answer holds: none unless it parsed to an object
\* with a results list
PageRecords(o) ==
    IF o.kind = "ok" /\ "results" \in DOMAIN o.body
    THEN o.body["results"].l ELSE << >>

RECURSIVE ConcatPages(_)
ConcatPages(rs) ==
    IF rs = << >> THEN << >>
    ELSE PageRecords(Head(rs)) \o ConcatPages(Tail(rs))

\* the accepted records of a raw sequence, in its order
RECURSIVE AcceptedOf(_)
AcceptedOf(raws) ==
    IF raws = << >> THEN << >>
    ELSE LET d == process_drug(Head(raws))
         IN  (IF d # None THEN <<d>> ELSE << >>) \o AcceptedOf(Tail(raws))

WithoutSearchText(d) == [k \in DOMAIN d \ {"search_text"} |-> d[k]]

\* C3: all_drugs is the pages' records in page order, each page's in the
\* order returned, and the accepted output is the accepted records of the
\* raw sequence in their relative order, each once.
C3_OrderPreserved ==
    /\ all_drugs = ConcatPages(responses)
    /\ LET accepted == AcceptedOf(SubSeq(raw_drugs, 1, idx))
       IN  /\ Len(processed) = Len(accepted)
           /\ \A i \in 1..Len(processed) :
                  WithoutSearchText(processed[i]) = accepted[i]

\* two pages, the first with a rejected record before an accepted one, and
\* two different records accepted in arrival order
C3_Witness ==
    /\ pc = "to_csv"
    /\ Len(responses) = 2
    /\ PageRecords(responses[1]) = <<RecV, RecA>>
    /\ PageRecords(responses[2]) = <<RecN>>
    /\ Len(processed) = 2
    /\ processed[1]["brand_name"] = Str("Advil")
    /\ processed[2]["brand_name"] = Str("Zyrtec")

RECURSIVE CountRecords(_)
CountRecords(rs) ==
    IF rs = << >> THEN 0
    ELSE (IF Head(rs).kind = "ok" /\ "results" \in DOMAIN Head(rs).body
          THEN Len(Head(rs).body["results"].l) ELSE 0)
             + CountRecords(Tail(rs))

C5_SerialRequests ==
    /\ inflight \in {0, 1}
    /\ inflight = 1 <=> pc = "await_response"
    /\ Len(requests) <= num_pages
    /\ \A i \in 1..Len(requests) :
           requests[i] = [skip |-> 100 * (i - 1), limit |-> 100]
    /\ \A i \in 1..Len(sleeps) : sleeps[i] = 500
    /\ Len(responses) = Len(requests) - inflight
    /\ Len(sleeps) = IF pc \in {"await_response", "sleep"}
                     THEN Len(requests) - 1 ELSE Len(requests)
    /\ ~Fetching => Len(requests) = num_pages /\ Len(sleeps) = num_pages

\* the second request in flight, sent after the sleep that followed a failed
\* first request
C5_Witness ==
    /\ pc = "await_response"
    /\ Len(requests) = 2
    /\ requests[2].skip = 100
    /\ responses = <<[kind |-> "transport_error", body |-> EmptyDict]>>
    /\ Len(sleeps) = 1

\* C10: the session is closed exactly once on every way out, after a
\* normal run and after a failure to create the directory or to write a
\* file; such a failure reaches the caller; and nothing is written before
\* every page is fetched and every record processed.
C10_ClosedOnceOnExit ==
    /\ closes <= 1
    /\ Ended => (session = "closed" /\ closes = 1)
    /\ ~Ended => closes = 0
    /\ pc = "returned" => (/\ exc = "none" /\ made_dir
                           /\ csv_file.written /\ json_file.written)
    /\ pc = "raised" => exc # "none"
    /\ exc = "OSError" =>
           (/\ pc \in {"finally", "raised"}
            /\ ~made_dir \/ ~csv_file.written \/ ~json_file.written)
    /\ (made_dir \/ csv_file.written \/ json_file.written) =>
           (/\ Len(responses) = num_pages
            /\ idx = Len(raw_drugs) /\ raw_drugs = all_drugs
            /\ Len(processed) + skipped = Len(all_drugs))
    /\ csv_file.written => csv_file.rows = processed
    /\ json_file.written => json_file.rows = processed

\* writing the JSON file failed after the CSV file was written: the session
\* is closed and the OSError is on its way to the caller
C10_Witness ==
    /\ pc = "raised" /\ exc = "OSError"
    /\ made_dir /\ csv_file.written /\ ~json_file.written
    /\ session = "closed" /\ closes = 1
    /\ Len(processed) >= 1

====
